---- MODULE Spec2Model ----
(***************************************************************************)
(* Model of src/app/rust/src/main.rs: the axum Router built by             *)
(* create_router, the five operation handlers, and the TimingService       *)
(* middleware that times every call and inserts six timing headers.        *)
(***************************************************************************)
EXTENDS Integers, Sequences, FiniteSets, TLC

\* ------------------------------------------------------------------------
\* Bounds of the model
\* ------------------------------------------------------------------------
\* number of clock ticks the monotonic clock may take
MaxTime == 1
\* nanoseconds that pass in one clock tick
TickNanos == 1500
\* number of calls that may be in flight at once
NumCalls == 2
\* longest `numbers` array of a /math request
MaxNumbers == 2

\* ------------------------------------------------------------------------
\* i64 arithmetic (main.rs:130 numbers: Vec<i64>), on little-endian
\* two's-complement byte sequences so that the 64-bit width is kept.
\* ------------------------------------------------------------------------
I64Bytes == 8
Byte == 2^8

\* n copies of the byte v
RECURSIVE Fill(_, _)
Fill(v, n) == IF n = 0 THEN <<>> ELSE <<v>> \o Fill(v, n - 1)

\* sign-extend the byte sequence a to n bytes
SignExt(a, n) ==
  a \o Fill(IF a[Len(a)] >= Byte \div 2 THEN Byte - 1 ELSE 0, n - Len(a))

\* the low I64Bytes bytes: the value as stored in an i64
Trunc(w) == SubSeq(w, 1, I64Bytes)

\* does the wide value w fit an i64
Fits(w) == SignExt(Trunc(w), Len(w)) = w

RECURSIVE AddFrom(_, _, _, _)
\* the bytes i.. of a + b, given the carry into byte i
AddFrom(a, b, i, carry) ==
  IF i > Len(a) THEN <<>>
  ELSE LET sum == a[i] + b[i] + carry
       IN <<sum % Byte>> \o AddFrom(a, b, i + 1, sum \div Byte)

\* a + b modulo Byte^Len(a)
AddW(a, b) == AddFrom(a, b, 1, 0)

RECURSIVE ColSum(_, _, _, _)
\* sum of a[i] * b[k+1-i] for i in 1..j
ColSum(a, b, k, j) ==
  IF j = 0 THEN 0 ELSE a[j] * b[k + 1 - j] + ColSum(a, b, k, j - 1)

RECURSIVE MulFrom(_, _, _, _)
\* the bytes k.. of a * b, given the carry into byte k
MulFrom(a, b, k, carry) ==
  IF k > Len(a) THEN <<>>
  ELSE LET sum == ColSum(a, b, k, k) + carry
       IN <<sum % Byte>> \o MulFrom(a, b, k + 1, sum \div Byte)

\* a * b modulo Byte^Len(a)
MulW(a, b) == MulFrom(a, b, 1, 0)

\* the i64 with small value n (|n| < Byte / 2)
I64(n) == SignExt(<<IF n >= 0 THEN n ELSE Byte + n>>, I64Bytes)
I64Max == Fill(Byte - 1, I64Bytes - 1) \o <<Byte \div 2 - 1>>
I64Min == Fill(0, I64Bytes - 1) \o <<Byte \div 2>>


\* ------------------------------------------------------------------------
\* Requests, JSON bodies and responses
\* ------------------------------------------------------------------------
\* a JSON member of string type: absent, null, of another type, or a string
Str(tag, v) == [tag |-> tag, v |-> v]
NoStr == Str("absent", "")
\* the `numbers` member: absent, of another type, or an array of i64
Nums(tag, v) == [tag |-> tag, v |-> v]
NoNums == Nums("absent", <<>>)

\* a request body: whether it is syntactically JSON, and its members
JsonBody(nums, op, key, value, text, pattern) ==
  [syntax |-> TRUE, numbers |-> nums, operation |-> op, key |-> key,
   value |-> value, text |-> text, pattern |-> pattern]
EmptyObject == JsonBody(NoNums, NoStr, NoStr, NoStr, NoStr, NoStr)
NotJson == [EmptyObject EXCEPT !.syntax = FALSE]

Request(method, path, ctype, body) ==
  [method |-> method, path |-> path, ctype |-> ctype, body |-> body]

\* a response body: what it holds, its strings and its number
Body(kind, strs, num) == [kind |-> kind, strs |-> strs, num |-> num]
EmptyBody == Body("empty", <<>>, <<>>)

\* http::Response: status, header map (name/value pairs), body
Response(status, headers, body) ==
  [status |-> status, headers |-> headers, body |-> body]

\* what a service call yields: Ok(response), Err(error) or a panic
\* (ran: the operation handlers whose body was executed)
Ok(resp, ran) == [kind |-> "ok", resp |-> resp, ran |-> ran]
Panic(ran) == [kind |-> "panic", resp |-> Response(0, {}, EmptyBody), ran |-> ran]
Err == [kind |-> "err", resp |-> Response(0, {}, EmptyBody), ran |-> {}]
\* no result yet
Pending == [kind |-> "none", resp |-> Response(0, {}, EmptyBody), ran |-> {}]

\* (StatusCode, Json(value)).into_response()
JsonResponse(status, body) ==
  Response(status, {<<"content-type", "application/json">>}, body)
ErrorJson(status, msg) == JsonResponse(status, Body("error", <<msg>>, <<>>))

\* ------------------------------------------------------------------------
\* Input models (main.rs:128-154) decoded by the Json extractor
\* ------------------------------------------------------------------------
\* a member declared Option<String> decodes unless it has another type
OptOk(m) == m.tag # "wrong"
IsSome(m) == m.tag = "str"

\* numbers: Vec<i64> is required, operation: Option<String> is optional
MathPayloadOk(b) == b.numbers.tag = "arr" /\ OptOk(b.operation)
JsonPayloadOk(b) == OptOk(b.key) /\ OptOk(b.value)
StringPayloadOk(b) == OptOk(b.text) /\ OptOk(b.pattern)
CompressPayloadOk(b) == OptOk(b.text)
ImagePayloadOk(b) == OptOk(b.text)

\* the rejection of axum's Json extractor, or "" when the body decodes
JsonRejection(req, payloadOk) ==
  IF ~req.ctype THEN "MissingJsonContentType"
  ELSE IF ~req.body.syntax THEN "JsonSyntaxError"
  ELSE IF ~payloadOk THEN "JsonDataError"
  ELSE ""

RejectionStatus(rej) ==
  CASE rej = "MissingJsonContentType" -> 415
    [] rej = "JsonSyntaxError" -> 400
    [] rej = "JsonDataError" -> 422

RejectionResponse(rej) ==
  Response(RejectionStatus(rej),
           {<<"content-type", "text/plain; charset=utf-8">>},
           Body("rejection", <<rej>>, <<>>))

\* ------------------------------------------------------------------------
\* Handlers
\* ------------------------------------------------------------------------
\* one step of iter().sum() / iter().product() on i64: the exact result in
\* twice the width, and whether it wrapped
StepExact(op, acc, n) ==
  IF op = "sum" THEN AddW(SignExt(acc, 2 * I64Bytes), SignExt(n, 2 * I64Bytes))
  ELSE MulW(SignExt(acc, 2 * I64Bytes), SignExt(n, 2 * I64Bytes))

RECURSIVE Fold(_, _, _)
\* the accumulator after folding numbers into acc, with wrapping arithmetic
Fold(op, acc, numbers) ==
  IF numbers = <<>> THEN acc
  ELSE Fold(op, Trunc(StepExact(op, acc, Head(numbers))), Tail(numbers))

RECURSIVE Overflows(_, _, _)
\* does some step of the fold leave the i64 range
Overflows(op, acc, numbers) ==
  IF numbers = <<>> THEN FALSE
  ELSE \/ ~Fits(StepExact(op, acc, Head(numbers)))
       \/ Overflows(op, Trunc(StepExact(op, acc, Head(numbers))), Tail(numbers))

Identity(op) == IF op = "sum" THEN I64(0) ELSE I64(1)

\* math_operations (main.rs:175-198); checks: the build's overflow checks
math_operations(b, checks) ==
  IF b.numbers.v = <<>>
  THEN Ok(ErrorJson(400, "No numbers provided"), {"math"})
  ELSE LET operation == IF IsSome(b.operation) THEN b.operation.v ELSE "sum"
       IN IF operation \notin {"sum", "product"}
          THEN Ok(ErrorJson(400, "Unsupported operation"), {"math"})
          ELSE IF checks /\ Overflows(operation, Identity(operation), b.numbers.v)
          THEN Panic({"math"})
          ELSE Ok(JsonResponse(200,
                    Body("result", <<>>,
                         Fold(operation, Identity(operation), b.numbers.v))),
                  {"math"})

\* json_manipulation (main.rs:203-221)
json_manipulation(b) ==
  IF ~IsSome(b.key) \/ ~IsSome(b.value)
  THEN Ok(ErrorJson(400, "Key and value are required"), {"json"})
  ELSE Ok(JsonResponse(200,
            Body("json_data",
                 <<"{\"" \o b.key.v \o "\":\"" \o b.value.v \o "\"}">>, <<>>)),
          {"json"})

\* the regex engine on the patterns of the model: is the pattern valid,
\* and the non-overlapping matches in the text
RegexValid(pattern) == pattern \in {"a.c", "hello"}
FindIter(pattern, text) ==
  CASE pattern = "a.c" /\ text = "abcabc" -> <<"abc", "abc">>
    [] pattern = "hello" /\ text = "hello" -> <<"hello">>
    [] OTHER -> <<>>

\* string_processing (main.rs:226-255)
string_processing(b) ==
  IF ~IsSome(b.text) \/ ~IsSome(b.pattern)
  THEN Ok(ErrorJson(400, "Text and pattern are required"), {"string"})
  ELSE IF ~RegexValid(b.pattern.v)
  THEN Ok(ErrorJson(400, "Invalid regex pattern"), {"string"})
  ELSE Ok(JsonResponse(200,
            Body("matches", FindIter(b.pattern.v, b.text.v), <<>>)),
          {"string"})

\* faulty variant: the empty text is refused like a missing one
compress_dataRejectEmpty(b) ==
  IF ~IsSome(b.text) \/ b.text.v = ""
  THEN Ok(ErrorJson(400, "Text is required"), {"compress"})
  ELSE Ok(Response(200, {<<"content-type", "application/gzip">>},
                   Body("gzip", <<b.text.v>>, <<>>)), {"compress"})
\* compress_data (main.rs:260-282); the gzip stream is held as the text it
\* decompresses to
compress_data(b) ==
  IF ~IsSome(b.text)
  THEN Ok(ErrorJson(400, "Text is required"), {"compress"})
  ELSE Ok(Response(200, {<<"content-type", "application/gzip">>},
                   Body("gzip", <<b.text.v>>, <<>>)), {"compress"})

\* image_processing (main.rs:287-339); font: FONT.is_some()
image_processing(b, font) ==
  LET text == IF IsSome(b.text) THEN b.text.v ELSE "Hello, World!"
  IN IF ~font
     THEN Ok(ErrorJson(500,
               "Fonte não carregada. Coloque DejaVuSans.ttf ou comente."),
             {"image"})
     ELSE Ok(JsonResponse(200, Body("image", <<text>>, <<>>)), {"image"})

\* ------------------------------------------------------------------------
\* The router (main.rs:344-354)
\* ------------------------------------------------------------------------
Routes == {"/math", "/json", "/string", "/compress", "/image"}

PayloadOk(path, b) ==
  CASE path = "/math" -> MathPayloadOk(b)
    [] path = "/json" -> JsonPayloadOk(b)
    [] path = "/string" -> StringPayloadOk(b)
    [] path = "/compress" -> CompressPayloadOk(b)
    [] path = "/image" -> ImagePayloadOk(b)

Handler(path, b, font, checks) ==
  CASE path = "/math" -> math_operations(b, checks)
    [] path = "/json" -> json_manipulation(b)
    [] path = "/string" -> string_processing(b)
    [] path = "/compress" -> compress_data(b)
    [] path = "/image" -> image_processing(b, font)

\* faulty variant: the handler's body runs before the rejection is looked at
ExtractThenHandleAnyway(req, font, checks) ==
  LET rej == JsonRejection(req, PayloadOk(req.path, req.body))
      out == Handler(req.path, req.body, font, checks)
  IN IF rej # "" THEN Ok(RejectionResponse(rej), out.ran) ELSE out
\* a handler taking Json(payload): the extractor runs first, and the
\* handler's body only when the body decodes
ExtractThenHandle(req, font, checks) ==
  LET rej == JsonRejection(req, PayloadOk(req.path, req.body))
  IN IF rej # "" THEN Ok(RejectionResponse(rej), {})
     ELSE Handler(req.path, req.body, font, checks)

\* post(handler) on a request with another method
MethodMismatch == Response(405, {<<"allow", "POST">>}, EmptyBody)

\* faulty variant: the routes accept any method
RouterCallAnyMethod(req, font, checks) ==
  IF req.path \notin Routes THEN Ok(Response(404, {}, EmptyBody), {})
  ELSE ExtractThenHandle(req, font, checks)
\* Router::call: exact path match, then the method router of the path
RouterCall(req, font, checks) ==
  IF req.path \notin Routes THEN Ok(Response(404, {}, EmptyBody), {})
  ELSE IF req.method # "POST" THEN Ok(MethodMismatch, {})
  ELSE ExtractThenHandle(req, font, checks)


\* ------------------------------------------------------------------------
\* Instants, durations and their Debug rendering (main.rs:81-117)
\* ------------------------------------------------------------------------
NanosPerSec == 10^9
NanosPerMilli == 10^6
NanosPerMicro == 10^3

\* the Instant read when the clock has ticked t times, in nanoseconds
Instant(t) == t * TickNanos

\* faulty variant: the operands taken in the other order
SubSwapped(a, b) == IF b >= a THEN b - a ELSE 0
\* Instant - Instant: the Duration between them, zero if b is later
Sub(a, b) == IF a >= b THEN a - b ELSE 0

\* format!("{:?}", instant)
FmtInstant(i) ==
  "Instant { tv_sec: " \o ToString(i \div NanosPerSec)
    \o ", tv_nsec: " \o ToString(i % NanosPerSec) \o " }"

RECURSIVE FracDigits(_, _)
FracDigits(frac, divisor) ==
  IF frac = 0 THEN ""
  ELSE ToString(frac \div divisor) \o FracDigits(frac % divisor, divisor \div 10)

FmtDecimal(int, frac, divisor, suffix) ==
  ToString(int) \o (IF frac > 0 THEN "." \o FracDigits(frac, divisor) ELSE "")
    \o suffix

\* format!("{:?}", duration)
FmtDuration(d) ==
  IF d >= NanosPerSec
  THEN FmtDecimal(d \div NanosPerSec, d % NanosPerSec, NanosPerSec \div 10, "s")
  ELSE IF d >= NanosPerMilli
  THEN FmtDecimal(d \div NanosPerMilli, d % NanosPerMilli, NanosPerMilli \div 10, "ms")
  ELSE IF d >= NanosPerMicro
  THEN FmtDecimal(d \div NanosPerMicro, d % NanosPerMicro, NanosPerMicro \div 10, "µs")
  ELSE FmtDecimal(d, 0, 1, "ns")

\* ------------------------------------------------------------------------
\* Header map
\* ------------------------------------------------------------------------
\* header names are case-insensitive and kept in lower case
HeaderName(name) ==
  CASE name = "X-Lambda-Start-Time" -> "x-lambda-start-time"
    [] name = "X-Lambda-End-Time" -> "x-lambda-end-time"
    [] name = "X-Lambda-Duration" -> "x-lambda-duration"
    [] name = "X-Endpoint-Start-Time" -> "x-endpoint-start-time"
    [] name = "X-Endpoint-End-Time" -> "x-endpoint-end-time"
    [] name = "X-Endpoint-Duration" -> "x-endpoint-duration"
    [] OTHER -> name

\* HeaderMap::get_all: the values under a name
HeaderGet(headers, name) ==
  {p[2] : p \in {q \in headers : q[1] = HeaderName(name)}}

\* faulty variant: the map is replaced by one holding the new entry alone
HeaderInsertAlone(headers, name, value) == {<<HeaderName(name), value>>}
\* HeaderMap::insert: the value replaces every value under the name
HeaderInsert(headers, name, value) ==
  {p \in headers : p[1] # HeaderName(name)} \cup {<<HeaderName(name), value>>}

TimingHeaderNames ==
  {"X-Lambda-Start-Time", "X-Lambda-End-Time", "X-Lambda-Duration",
   "X-Endpoint-Start-Time", "X-Endpoint-End-Time", "X-Endpoint-Duration"}

\* ------------------------------------------------------------------------
\* TimingService (main.rs:44-123)
\* ------------------------------------------------------------------------
Unset == 0 - 1
\* the locals of one activation of the async block of TimingService::call
NewFrame ==
  [lambda_start |-> Unset, endpoint_start |-> Unset,
   lambda_end |-> Unset, endpoint_end |-> Unset]

\* main.rs:90-118: the six inserts on the response's header map
InsertTimingHeaders(headers, f) ==
  LET lambda_duration == Sub(f.lambda_end, f.lambda_start)
      endpoint_duration == Sub(f.endpoint_end, f.endpoint_start)
      h1 == HeaderInsert(headers, "X-Lambda-Start-Time", FmtInstant(f.lambda_start))
      h2 == HeaderInsert(h1, "X-Lambda-End-Time", FmtInstant(f.lambda_end))
      h3 == HeaderInsert(h2, "X-Lambda-Duration", FmtDuration(lambda_duration))
      h4 == HeaderInsert(h3, "X-Endpoint-Start-Time", FmtInstant(f.endpoint_start))
      h5 == HeaderInsert(h4, "X-Endpoint-End-Time", FmtInstant(f.endpoint_end))
  IN HeaderInsert(h5, "X-Endpoint-Duration", FmtDuration(endpoint_duration))

\* history of one activation: the instants it read from the clock
NewReads ==
  [lambda_start |-> Unset, endpoint_start |-> Unset,
   lambda_end |-> Unset, endpoint_end |-> Unset]

VARIABLES
  now,              \* ticks of the monotonic clock behind Instant::now()
  FONT,             \* whether the embedded font parsed (main.rs:163)
  overflow_checks,  \* whether the build checks integer overflow
  stack,            \* the composed service: TimingService layers and inner
  calls             \* the activations of TimingService::call

vars == <<now, FONT, overflow_checks, stack, calls>>

Calls == 1..NumCalls

\* create_router (main.rs:344-354): one TimingLayer over the Router
create_router == [layers |-> 1, inner |-> "router"]

\* a fresh activation of the async block for request req
NewCall(pc, req, level) ==
  [pc |-> pc, req |-> req, level |-> level,
   frames |-> [k \in 1..stack.layers |-> NewFrame],
   reads |-> [k \in 1..stack.layers |-> NewReads],
   got |-> [k \in 1..stack.layers |-> Pending],
   out |-> Pending]

IdleCall == NewCall("idle", Request("", "", FALSE, EmptyObject), 0)

\* faulty variant: the locals live in the service, shared by its calls
ActivationShared(c) == 1
\* the activation that holds the locals of call c: its own future
Activation(c) == c

\* what the innermost service returns on a request
InnerOutcomes(req) ==
  IF stack.inner = "router"
  THEN {RouterCall(req, FONT, overflow_checks)}
  ELSE {RouterCall(req, FONT, overflow_checks), Err}

\* main.rs:77-80: a call arrives; the service is cloned and the future starts
Begin(c, req) ==
  /\ calls[c].pc = "idle"
  /\ calls' = [calls EXCEPT ![c] = NewCall("L81", req, 1)]
  /\ UNCHANGED <<now, FONT, overflow_checks, stack>>

\* main.rs:81
ReadLambdaStart(c) ==
  /\ calls[c].pc = "L81"
  /\ calls' = [calls EXCEPT
       ![c].pc = "L82",
       ![c].reads[calls[c].level].lambda_start = Instant(now),
       ![Activation(c)].frames[calls[c].level].lambda_start = Instant(now)]
  /\ UNCHANGED <<now, FONT, overflow_checks, stack>>

\* main.rs:82
ReadEndpointStart(c) ==
  /\ calls[c].pc = "L82"
  /\ calls' = [calls EXCEPT
       ![c].pc = "L85",
       ![c].reads[calls[c].level].endpoint_start = Instant(now),
       ![Activation(c)].frames[calls[c].level].endpoint_start = Instant(now)]
  /\ UNCHANGED <<now, FONT, overflow_checks, stack>>

\* main.rs:85 service.call(req): the inner service is another TimingService
\* or the innermost service, whose future is then awaited
CallInner(c) ==
  /\ calls[c].pc = "L85"
  /\ IF calls[c].level < stack.layers
     THEN calls' = [calls EXCEPT ![c].pc = "L81", ![c].level = @ + 1]
     ELSE \E out \in InnerOutcomes(calls[c].req) :
            calls' = [calls EXCEPT ![c].pc = "await", ![c].out = out]
  /\ UNCHANGED <<now, FONT, overflow_checks, stack>>

\* this layer returns out to its caller: the layer outside, or the shell
Return(c, out) ==
  IF calls[c].level = 1
  THEN [calls[c] EXCEPT !.pc = "done", !.out = out, !.level = 0]
  ELSE [calls[c] EXCEPT !.pc = "await", !.out = out, !.level = @ - 1]

\* faulty variant: only a successful response goes on to be timed; an error
\* response is returned as it came
ResumeOnlySuccess(c) ==
  /\ calls[c].pc = "await"
  /\ LET k == calls[c].level
         out == calls[c].out
         me == [calls[c] EXCEPT !.got[k] = out]
     IN calls' = [calls EXCEPT ![c] =
          CASE out.kind = "panic" -> [me EXCEPT !.pc = "panicked", !.level = 0]
            [] out.kind = "err" \/ (out.kind = "ok" /\ out.resp.status >= 400) ->
                 [Return(c, out) EXCEPT !.got = me.got]
            [] OTHER -> [me EXCEPT !.pc = "L87"]]
  /\ UNCHANGED <<now, FONT, overflow_checks, stack>>

\* faulty variant: an Err of the inner service is turned into a 500 response, which
\* is then timed like any other
ResumeCatchErr(c) ==
  /\ calls[c].pc = "await"
  /\ LET k == calls[c].level
         out == calls[c].out
         me == [calls[c] EXCEPT !.got[k] = out]
     IN calls' = [calls EXCEPT ![c] =
          CASE out.kind = "panic" -> [me EXCEPT !.pc = "panicked", !.level = 0]
            [] out.kind = "err" ->
                 [me EXCEPT !.pc = "L87", !.out = Ok(Response(500, {}, EmptyBody), {})]
            [] out.kind = "ok" -> [me EXCEPT !.pc = "L87"]]
  /\ UNCHANGED <<now, FONT, overflow_checks, stack>>

\* main.rs:85 .await?: the inner future completes; Err returns at once
Resume(c) ==
  /\ calls[c].pc = "await"
  /\ LET k == calls[c].level
         out == calls[c].out
         me == [calls[c] EXCEPT !.got[k] = out]
     IN calls' = [calls EXCEPT ![c] =
          CASE out.kind = "panic" -> [me EXCEPT !.pc = "panicked", !.level = 0]
            [] out.kind = "err" -> [Return(c, out) EXCEPT !.got = me.got]
            [] out.kind = "ok" -> [me EXCEPT !.pc = "L87"]]
  /\ UNCHANGED <<now, FONT, overflow_checks, stack>>

\* main.rs:87
ReadLambdaEnd(c) ==
  /\ calls[c].pc = "L87"
  /\ calls' = [calls EXCEPT
       ![c].pc = "L88",
       ![c].reads[calls[c].level].lambda_end = Instant(now),
       ![Activation(c)].frames[calls[c].level].lambda_end = Instant(now)]
  /\ UNCHANGED <<now, FONT, overflow_checks, stack>>

\* main.rs:88-120: the last clock read, the six inserts, Ok(response)
Finish(c) ==
  /\ calls[c].pc = "L88"
  /\ LET k == calls[c].level
         f == [calls[Activation(c)].frames[k] EXCEPT !.endpoint_end = Instant(now)]
         response == [calls[c].out.resp EXCEPT
                        !.headers = InsertTimingHeaders(@, f)]
         stored == [calls EXCEPT
                      ![c].reads[k].endpoint_end = Instant(now),
                      ![Activation(c)].frames[k] = f]
     IN calls' = [stored EXCEPT ![c] =
          [Return(c, Ok(response, calls[c].out.ran)) EXCEPT
             !.reads = stored[c].reads, !.frames = stored[c].frames]]
  /\ UNCHANGED <<now, FONT, overflow_checks, stack>>

\* the response has been sent, or the task has died: the activation is gone
Drop(c) ==
  /\ calls[c].pc \in {"done", "panicked"}
  /\ calls' = [calls EXCEPT ![c] = IdleCall]
  /\ UNCHANGED <<now, FONT, overflow_checks, stack>>

\* time passes
Tick ==
  /\ now < MaxTime
  /\ now' = now + 1
  /\ UNCHANGED <<FONT, overflow_checks, stack, calls>>


\* ------------------------------------------------------------------------
\* Requests of the environment
\* ------------------------------------------------------------------------
Paths == Routes \cup {"/nothing"}

\* the i64 values the requests draw from
NumberPool == {I64(1), I64(2), I64(0 - 1), I64Max, I64Min}

RECURSIVE SeqsUpTo(_, _)
\* the sequences over S of length at most n
SeqsUpTo(S, n) ==
  IF n = 0 THEN {<<>>}
  ELSE LET shorter == SeqsUpTo(S, n - 1)
       IN shorter \cup {Append(q, e) : q \in shorter, e \in S}

Operations == {NoStr, Str("null", ""), Str("str", "sum"),
               Str("str", "product"), Str("str", "avg")}

MathBodies ==
  {JsonBody(Nums("arr", ns), op, NoStr, NoStr, NoStr, NoStr) :
     ns \in SeqsUpTo(NumberPool, MaxNumbers), op \in Operations}
  \cup {JsonBody(Nums("wrong", <<>>), NoStr, NoStr, NoStr, NoStr, NoStr),
        JsonBody(Nums("arr", <<I64(1)>>), Str("wrong", ""), NoStr, NoStr, NoStr, NoStr)}

JsonBodies ==
  {JsonBody(NoNums, NoStr, k, v, NoStr, NoStr) :
     k \in {NoStr, Str("str", "a")}, v \in {NoStr, Str("str", "b"), Str("wrong", "")}}

StringBodies ==
  {JsonBody(NoNums, NoStr, NoStr, NoStr, t, p) :
     t \in {NoStr, Str("str", "abcabc")},
     p \in {NoStr, Str("str", "a.c"), Str("str", "("), Str("wrong", "")}}

TextBodies ==
  {JsonBody(NoNums, NoStr, NoStr, NoStr, t, NoStr) :
     t \in {NoStr, Str("null", ""), Str("str", ""), Str("str", "hello"),
            Str("wrong", "")}}

BodiesOf(path) ==
  CASE path = "/math" -> MathBodies
    [] path = "/json" -> JsonBodies
    [] path = "/string" -> StringBodies
    [] OTHER -> TextBodies

\* every request the model sends to the composed service
Requests ==
  UNION {{Request("POST", path, TRUE, b) : b \in BodiesOf(path) \cup {EmptyObject, NotJson}}
         \cup {Request("POST", path, FALSE, EmptyObject),
               Request("GET", path, TRUE, EmptyObject)} : path \in Paths}

\* the requests of the concurrent calls
ConcurrentRequests ==
  {Request("POST", "/json", TRUE,
           JsonBody(NoNums, NoStr, Str("str", "a"), Str("str", "b"), NoStr, NoStr)),
   Request("POST", "/compress", TRUE, NotJson)}

\* ------------------------------------------------------------------------
\* Specifications
\* ------------------------------------------------------------------------
InitCommon ==
  /\ now = 0
  /\ FONT \in BOOLEAN
  /\ overflow_checks \in BOOLEAN
  /\ calls = [c \in Calls |-> IdleCall]

\* the program: the service built by create_router, one request at a time
Init == stack = create_router /\ InitCommon

Start == \E req \in Requests : Begin(1, req)

Step ==
  \E c \in Calls :
    \/ ReadLambdaStart(c)
    \/ ReadEndpointStart(c)
    \/ CallInner(c)
    \/ Resume(c)
    \/ ReadLambdaEnd(c)
    \/ Finish(c)
    \/ Drop(c)

Next == Tick \/ Start \/ Step

Spec == Init /\ [][Next]_vars

\* the program under concurrent requests
StartConcurrent == \E c \in Calls, req \in ConcurrentRequests : Begin(c, req)

NextConcurrent == Tick \/ StartConcurrent \/ Step

\* the usual build: the embedded font parses, overflow is not checked
InitConcurrent == Init /\ FONT /\ ~overflow_checks

SpecConcurrent == InitConcurrent /\ [][NextConcurrent]_vars

\* TimingService over any inner service: a second TimingService around the
\* first, and an innermost service that may fail with Err
Stacks == {[layers |-> n, inner |-> i] : n \in 1..2, i \in {"router", "fallible"}}

InitGeneric == stack \in Stacks /\ InitCommon

StartGeneric == \E req \in ConcurrentRequests : Begin(1, req)

NextGeneric == Tick \/ StartGeneric \/ Step

SpecGeneric == InitGeneric /\ [][NextGeneric]_vars

\* ------------------------------------------------------------------------
\* Properties
\* ------------------------------------------------------------------------
Done(c) == calls[c].pc = "done"
Responded(c) == Done(c) /\ calls[c].out.kind = "ok"
Resp(c) == calls[c].out.resp
Registered(req) == req.method = "POST" /\ req.path \in Routes

\* the single value of a header, "" when it is absent or has several values
HeaderValueOf(resp, name) ==
  LET vs == HeaderGet(resp.headers, name)
  IN IF Cardinality(vs) = 1 THEN CHOOSE v \in vs : TRUE ELSE ""

HasTimingHeaders(resp) ==
  \A name \in TimingHeaderNames : Cardinality(HeaderGet(resp.headers, name)) = 1

\* the timing headers of resp render the instants of the history h
RendersReads(resp, h) ==
  /\ HeaderValueOf(resp, "X-Lambda-Start-Time") = FmtInstant(h.lambda_start)
  /\ HeaderValueOf(resp, "X-Lambda-End-Time") = FmtInstant(h.lambda_end)
  /\ HeaderValueOf(resp, "X-Lambda-Duration") = FmtDuration(h.lambda_end - h.lambda_start)
  /\ HeaderValueOf(resp, "X-Endpoint-Start-Time") = FmtInstant(h.endpoint_start)
  /\ HeaderValueOf(resp, "X-Endpoint-End-Time") = FmtInstant(h.endpoint_end)
  /\ HeaderValueOf(resp, "X-Endpoint-Duration") = FmtDuration(h.endpoint_end - h.endpoint_start)

\* C1: every response to a request for one of the five POST routes, whatever
\* its outcome (200, 400, 500 or a rejection of the body), leaves the service
\* built by create_router with all six timing headers.
C1_AllRoutesCarryTimingHeaders ==
  \A c \in Calls :
    Responded(c) /\ Registered(calls[c].req) => HasTimingHeaders(Resp(c))

\* a rejected body has been answered, with the six headers
C1_Witness ==
  \E c \in Calls :
    /\ Responded(c) /\ Registered(calls[c].req)
    /\ Resp(c).body.kind = "rejection"
    /\ Resp(c).status = 422
    /\ HasTimingHeaders(Resp(c))

\* what the outermost TimingService got from its inner service, and returned
InnerResp(c) == calls[c].got[1].resp
Decorated(c) == Responded(c) /\ calls[c].got[1].kind = "ok"
LowerTimingNames == {HeaderName(n) : n \in TimingHeaderNames}

\* C2 as claimed: the response of TimingService::call has the status and the
\* body of the inner response, and every header of the inner response with
\* its value unchanged, also a header under one of the six timing names.
C2_OnlyAddsHeaders ==
  \A c \in Calls :
    Decorated(c) =>
      /\ Resp(c).status = InnerResp(c).status
      /\ Resp(c).body = InnerResp(c).body
      /\ InnerResp(c).headers \subseteq Resp(c).headers

\* C2 amended: status and body are those of the inner response, the headers
\* under other names than the six timing names are exactly those of the inner
\* response, and each timing name holds the one value of this call, in place
\* of any value the inner service had set.
C2_KeepsOtherHeaders ==
  \A c \in Calls :
    Decorated(c) =>
      /\ Resp(c).status = InnerResp(c).status
      /\ Resp(c).body = InnerResp(c).body
      /\ {p \in Resp(c).headers : p[1] \notin LowerTimingNames}
           = {p \in InnerResp(c).headers : p[1] \notin LowerTimingNames}
      /\ RendersReads(Resp(c), calls[c].reads[1])

\* an inner TimingService had set a timing header to another value, and the
\* inner response had a header of its own
C2_Witness ==
  \E c \in Calls :
    /\ Decorated(c)
    /\ stack.layers = 2
    /\ <<"content-type", "application/json">> \in InnerResp(c).headers
    /\ HeaderValueOf(InnerResp(c), "X-Lambda-Start-Time") # ""
    /\ HeaderValueOf(InnerResp(c), "X-Lambda-Start-Time")
         # HeaderValueOf(Resp(c), "X-Lambda-Start-Time")

\* the instants the outermost activation of call c has read so far
ReadSoFar(c) ==
  {n \in DOMAIN NewReads : calls[c].reads[1][n] # Unset}

\* C3: in a response with timing headers, for the lambda and the endpoint
\* window, end is not before start and the duration header renders end minus
\* start; both starts have been read when the inner service is called, and no
\* end is read until it has returned its response.
C3_WindowsConsistent ==
  \A c \in Calls :
    /\ Responded(c) =>
         LET h == calls[c].reads[1]
         IN /\ RendersReads(Resp(c), h)
            /\ h.lambda_start <= h.lambda_end
            /\ h.endpoint_start <= h.endpoint_end
            /\ ReadSoFar(c) = DOMAIN NewReads
    /\ calls[c].pc = "L85" \/ calls[c].level > 1 \/ calls[c].pc \in {"await", "L87"} =>
         ReadSoFar(c) = {"lambda_start", "endpoint_start"}

\* a response whose windows have a positive duration
C3_Witness ==
  \E c \in Calls :
    /\ Responded(c)
    /\ calls[c].reads[1].lambda_start < calls[c].reads[1].lambda_end
    /\ HeaderValueOf(Resp(c), "X-Lambda-Duration") = "1.5µs"
    /\ HeaderValueOf(Resp(c), "X-Endpoint-Duration") \in {"0ns", "1.5µs"}

Undecodable(req) ==
  LET b == req.body
      wrong(m) == m.tag = "wrong"
  IN \/ ~b.syntax
     \/ req.path = "/math" /\ (b.numbers.tag # "arr" \/ wrong(b.operation))
     \/ req.path = "/json" /\ (wrong(b.key) \/ wrong(b.value))
     \/ req.path = "/string" /\ (wrong(b.text) \/ wrong(b.pattern))
     \/ req.path \in {"/compress", "/image"} /\ wrong(b.text)

\* C5: a request for a registered route whose body does not decode into the
\* route's payload is answered with a 4xx status without the handler's body
\* running; and no request runs more than one handler body.
C5_DecodeFailureSkipsHandler ==
  \A c \in Calls :
    /\ Cardinality(calls[c].out.ran) <= 1
    /\ Done(c) /\ Registered(calls[c].req) /\ Undecodable(calls[c].req) =>
         /\ calls[c].out.kind = "ok"
         /\ Resp(c).status \in 400..499
         /\ calls[c].out.ran = {}

\* POST /math without numbers has been rejected
C5_Witness ==
  \E c \in Calls :
    /\ Responded(c)
    /\ calls[c].req.path = "/math" /\ calls[c].req.method = "POST"
    /\ calls[c].req.ctype /\ calls[c].req.body.syntax
    /\ calls[c].req.body.numbers.tag = "absent"
    /\ Resp(c).status = 422
    /\ calls[c].out.ran = {}

\* C6: when the inner service's call ends in Err, TimingService::call returns
\* that Err: it reads no end instant, inserts no header and makes up no
\* response; a response it returns came from the inner service and carries
\* each of the six headers once.
C6_ErrPassesThrough ==
  \A c \in Calls :
    /\ \A k \in 1..Len(calls[c].got) :
         calls[c].got[k].kind = "err" =>
           /\ calls[c].reads[k].lambda_end = Unset
           /\ calls[c].reads[k].endpoint_end = Unset
           /\ calls[c].frames[k].lambda_end = Unset
           /\ calls[c].out = calls[c].got[k]
           /\ calls[c].pc \in {"await", "done"}
    /\ Responded(c) =>
         calls[c].got[1].kind = "ok" /\ HasTimingHeaders(Resp(c))

\* the innermost service failed and two TimingService layers passed the Err on
C6_Witness ==
  \E c \in Calls :
    /\ Done(c)
    /\ stack.layers = 2
    /\ calls[c].got[2].kind = "err" /\ calls[c].got[1].kind = "err"
    /\ calls[c].out = Err
    /\ calls[c].reads[1].endpoint_start # Unset
    /\ calls[c].reads[1].lambda_end = Unset

\* C7: under any interleaving of concurrent calls, the instants rendered into
\* a response's headers are the ones its own call read.
C7_OwnInstants ==
  \A c \in Calls : Responded(c) => RendersReads(Resp(c), calls[c].reads[1])

\* a call has been answered while another call, which began before the first
\* one read its end instants and began at another instant, is still running
C7_Witness ==
  \E c, d \in Calls :
    /\ c # d
    /\ Responded(c)
    /\ calls[d].pc = "L87"
    /\ calls[d].reads[1].lambda_start < calls[c].reads[1].lambda_end
    /\ calls[d].reads[1].lambda_start # calls[c].reads[1].lambda_start

\* the exact sum or product of numbers, in bytes enough to hold it
ExactBytes == I64Bytes * MaxNumbers
RECURSIVE Exact(_, _, _)
Exact(op, acc, numbers) ==
  IF numbers = <<>> THEN acc
  ELSE Exact(op,
             IF op = "sum" THEN AddW(acc, SignExt(Head(numbers), ExactBytes))
             ELSE MulW(acc, SignExt(Head(numbers), ExactBytes)),
             Tail(numbers))

\* a /math request whose body decodes, with numbers not empty and operation
\* absent or a string
MathCase(req) ==
  /\ Registered(req) /\ req.path = "/math"
  /\ req.ctype /\ req.body.syntax
  /\ req.body.numbers.tag = "arr" /\ req.body.numbers.v # <<>>
  /\ req.body.operation.tag \in {"absent", "str"}

\* C8 as claimed: for every non-empty numbers, POST /math answers 200 with the
\* arithmetic sum (operation "sum" or absent) or product ("product"), and 400
\* with an error for any other operation, also when the sum or product lies
\* outside the 64-bit range.
C8_MathIsArithmetic ==
  \A c \in Calls :
    calls[c].pc \in {"done", "panicked"} /\ MathCase(calls[c].req) =>
      LET b == calls[c].req.body
          op == IF b.operation.tag = "absent" THEN "sum" ELSE b.operation.v
      IN /\ calls[c].out.kind = "ok"
         /\ IF op \in {"sum", "product"}
            THEN /\ Resp(c).status = 200
                 /\ Resp(c).body.kind = "result"
                 /\ SignExt(Resp(c).body.num, ExactBytes)
                      = Exact(op, SignExt(Identity(op), ExactBytes), b.numbers.v)
            ELSE Resp(c).status = 400 /\ Resp(c).body.kind = "error"

\* a /compress request whose body decodes
CompressCase(req) ==
  /\ Registered(req) /\ req.path = "/compress"
  /\ req.ctype /\ req.body.syntax /\ req.body.text.tag # "wrong"

IsGzipOf(resp, text) ==
  /\ resp.status = 200
  /\ HeaderGet(resp.headers, "content-type") = {"application/gzip"}
  /\ resp.body = Body("gzip", <<text>>, <<>>)

IsError(resp, status) == resp.status = status /\ resp.body.kind = "error"

\* C9 as claimed: POST /compress answers 400 with an error when text is
\* absent and when text is the empty string, and 200 with content-type
\* application/gzip and a gzip body for every non-empty text.
C9_EmptyTextRejected ==
  \A c \in Calls :
    Responded(c) /\ CompressCase(calls[c].req) =>
      LET text == calls[c].req.body.text
      IN IF text.tag # "str" \/ text.v = ""
         THEN IsError(Resp(c), 400)
         ELSE IsGzipOf(Resp(c), text.v)

\* C9 amended: POST /compress answers 400 with an error when text is absent
\* (or null), and 200 with content-type application/gzip and a gzip body for
\* every text that is present, the empty string included.
C9_PresentTextCompressed ==
  \A c \in Calls :
    Responded(c) /\ CompressCase(calls[c].req) =>
      LET text == calls[c].req.body.text
      IN IF text.tag # "str"
         THEN IsError(Resp(c), 400)
         ELSE IsGzipOf(Resp(c), text.v)

\* the empty text has been compressed
C9_Witness ==
  \E c \in Calls :
    /\ Responded(c) /\ CompressCase(calls[c].req)
    /\ calls[c].req.body.text = Str("str", "")
    /\ IsGzipOf(Resp(c), "")

\* C10 as claimed: the lambda window encloses the endpoint window: the clock
\* is read for lambda-start, endpoint-start, (inner call), endpoint-end,
\* lambda-end, so lambda_start <= endpoint_start, endpoint_end <= lambda_end
\* and endpoint_duration <= lambda_duration in every response.
C10_WindowsNested ==
  \A c \in Calls :
    Responded(c) =>
      LET h == calls[c].reads[1]
      IN /\ h.lambda_start <= h.endpoint_start
         /\ h.endpoint_end <= h.lambda_end
         /\ h.endpoint_end - h.endpoint_start <= h.lambda_end - h.lambda_start

====
